---- MODULE Spec2Model ----
(***************************************************************************)
(* Model of src/main.py: a simpy simulation of cars driving down a road    *)
(* with speed cameras, speed bumps, a congestion zone and collision        *)
(* detection.  One run is run_simulation(num_cars, time_limit): every car  *)
(* is a simpy process (car_process) that moves, is affected by the road's  *)
(* objects and sleeps one time unit, until env.run(until=time_limit)       *)
(* stops the event loop.                                                   *)
(*                                                                         *)
(* The simpy event loop is modelled as it schedules: a queue of events     *)
(* keyed (time, priority, eid), popped smallest first.                     *)
(***************************************************************************)
EXTENDS Integers, Sequences, FiniteSets, TLC

VARIABLES env, road, cars, finished_cars, time_limit, status, result, proc, run2

vars == <<env, road, cars, finished_cars, time_limit, status, result, proc, run2>>

----------------------------------------------------------------------------
(* Bounds of the model                                                     *)

MaxCars == 2
MaxTimeLimit == 7
MaxRoadTimeLimit == 89
MaxLiveTimeLimit == 5
MaxGap == 1
MaxOrderCars == 3

(* Program constants                                                       *)

URGENT == 0
NORMAL == 1
RoadLength == 100
CameraSpeedLimit == 15
BumpSlowDown == 5
CameraPenalty == 5
FumesThreshold == 5

(* fumes levels are kept in tenths: 5 is 0.5, 6 is 0.6 *)
FumesChoices == {1, 2, 3, 4, 5, 6, 7, 8, 9}

(* the outcomes of the fumes draw the model enumerates: the two levels     *)
(* around the threshold of CongestionCharging                              *)
SampledFumes == {f \in FumesChoices : f \in {5, 6}}
SpeedChoices == {10, 15, 20, 25, 30}

(* the outcomes of random.choices the model enumerates *)
SampledSpeeds == {s \in SpeedChoices : s \in {10, 30}}

Max(a, b) == IF a > b THEN a ELSE b

----------------------------------------------------------------------------
(* Road objects                                                            *)

SpeedCamera(speed_limit) == [kind |-> "SpeedCamera", param |-> speed_limit]
SpeedBump(slow_down) == [kind |-> "SpeedBump", param |-> slow_down]
CongestionCharging(fumes) == [kind |-> "CongestionCharging", param |-> fumes]
TrafficCollisionDetection == [kind |-> "TrafficCollisionDetection", param |-> 0]

(* one record of random outcomes for one pass of a car over the road:      *)
(* choice is random.choice([True, False]) of the camera, charged and       *)
(* collision are the two numpy draws                                       *)
Draws == [choice : BOOLEAN, charged : BOOLEAN, collision : BOOLEAN]

(* the camera's slow-down without its floor *)
SpeedCamera_affect_NoFloor(speed, choice) ==
    IF choice THEN speed - CameraPenalty ELSE speed

SpeedCamera_affect(speed, choice) ==
    IF choice THEN Max(speed - CameraPenalty, 1) ELSE speed

(* the bump with the floor 0 instead of 1 *)
SpeedBump_affect_FloorZero(speed, slow_down) == Max(speed - slow_down, 0)

(* the bump without its floor *)
SpeedBump_affect_NoFloor(speed, slow_down) == speed - slow_down

SpeedBump_affect(speed, slow_down) == Max(speed - slow_down, 1)

(* the zone acting from the threshold on *)
CongestionCharging_affect_Inclusive(speed, fumes, charged) ==
    IF fumes >= FumesThreshold
    THEN IF charged THEN speed ELSE 0
    ELSE speed

CongestionCharging_affect(speed, fumes, charged) ==
    IF fumes > FumesThreshold
    THEN IF charged THEN speed ELSE 0
    ELSE speed

TrafficCollisionDetection_affect(speed, collision) ==
    IF collision THEN 0 ELSE speed

(* obj.affect(car, env): dynamic dispatch on the object's class *)
affect(obj, speed, d) ==
    CASE obj.kind = "SpeedCamera" -> SpeedCamera_affect(speed, d.choice)
      [] obj.kind = "SpeedBump" -> SpeedBump_affect(speed, obj.param)
      [] obj.kind = "CongestionCharging" ->
             CongestionCharging_affect(speed, obj.param, d.charged)
      [] obj.kind = "TrafficCollisionDetection" ->
             TrafficCollisionDetection_affect(speed, d.collision)

(* does this application assign car.speed = 0 (the stop branches) *)
Stops(obj, d) ==
    CASE obj.kind = "CongestionCharging" -> obj.param > FumesThreshold /\ ~d.charged
      [] obj.kind = "TrafficCollisionDetection" -> d.collision
      [] OTHER -> FALSE

(* does this application take a value from a random stream *)
Drew(obj) ==
    CASE obj.kind = "SpeedCamera" -> TRUE
      [] obj.kind = "SpeedBump" -> FALSE
      [] obj.kind = "CongestionCharging" -> obj.param > FumesThreshold
      [] obj.kind = "TrafficCollisionDetection" -> TRUE

(* Road.check_objects: the objects in list order, each on the speed the    *)
(* previous one left.  The result lists, per object, the speed before and  *)
(* after its affect; the last entry's after is the speed the car keeps.    *)
RECURSIVE check_objects_from(_, _, _, _, _)
check_objects_from(i, objects, speed, d, log) ==
    IF i > Len(objects)
    THEN log
    ELSE LET after == affect(objects[i], speed, d)
         IN  check_objects_from(i + 1, objects, after, d,
                 Append(log, [kind |-> objects[i].kind, before |-> speed,
                              after |-> after, drew |-> Drew(objects[i]),
                              stops |-> Stops(objects[i], d)]))

(* the objects taken from the last to the first *)
check_objects_Reversed(objects, speed, d) ==
    check_objects_from(1, [i \in 1..Len(objects) |-> objects[Len(objects) - i + 1]],
                       speed, d, <<>>)

check_objects(objects, speed, d) == check_objects_from(1, objects, speed, d, <<>>)

SpeedAfter(log, speed) == IF log = <<>> THEN speed ELSE log[Len(log)].after

(* the position at which the car stands still after this pass because a    *)
(* stop branch set its speed to 0 and nothing changed the speed since, -1  *)
(* when it was not stopped or its speed was changed again; was is the      *)
(* value before the pass, position the position after the move             *)
StoppedAfter(log, was, position) ==
    IF \E i \in 1..Len(log) :
          /\ log[i].stops
          /\ \A j \in (i + 1)..Len(log) : log[j].after = log[j].before
    THEN position
    ELSE IF \A j \in 1..Len(log) : log[j].after = log[j].before
         THEN was
         ELSE -1

(* a move that assigns the speed instead of adding it *)
Car_move_Assign(car) == [car EXCEPT !.position = car.speed]

(* a move that advances a standing car by 1 *)
Car_move_Crawl(car) == [car EXCEPT !.position = car.position + Max(car.speed, 1)]

(* Car.move *)
Car_move(car) == [car EXCEPT !.position = car.position + car.speed]

----------------------------------------------------------------------------
(* simpy environment                                                       *)

Event(time, priority, eid, kind, car) ==
    [time |-> time, priority |-> priority, eid |-> eid, kind |-> kind, car |-> car]

Before(e, f) ==
    \/ e.time < f.time
    \/ e.time = f.time /\ e.priority < f.priority
    \/ e.time = f.time /\ e.priority = f.priority /\ e.eid < f.eid

(* the event env.step() pops *)
NextEvent(queue) == CHOOSE e \in queue : \A f \in queue \ {e} : Before(e, f)

(* a schedule that does not advance the event id *)
schedule_SameEid(e, priority, delay, kind, car) ==
    [e EXCEPT !.queue = @ \cup {Event(e.now + delay, priority, e.eid, kind, car)}]

(* env.schedule(event, priority, delay) *)
schedule(e, priority, delay, kind, car) ==
    [e EXCEPT !.queue = @ \cup {Event(e.now + delay, priority, e.eid, kind, car)},
              !.eid = @ + 1]

(* the processes registered from the last car to the first *)
RECURSIVE register_Reversed(_, _, _)
register_Reversed(e, i, n) ==
    IF i > n THEN e
    ELSE register_Reversed(schedule(e, URGENT, 0, "Initialize", n - i + 1), i + 1, n)

(* env.process(car_process(...)) for every car, in list order *)
RECURSIVE register(_, _, _)
register(e, i, n) ==
    IF i > n THEN e
    ELSE register(schedule(e, URGENT, 0, "Initialize", i), i + 1, n)

(* priority of the stop event of env.run(until=number) *)
UntilPriority == URGENT

(* delay of the timeout car_process yields *)
TimeoutDelay == 1

(* a timeout that does not let time pass *)
timeout_Now(e, delay, c) == schedule(e, NORMAL, 0, "Timeout", c)

(* env.timeout(delay), yielded by the process of car c: the process is     *)
(* resumed when the timeout is popped                                      *)
timeout(e, delay, c) == schedule(e, NORMAL, delay, "Timeout", c)

----------------------------------------------------------------------------
(* One run as a record; the variables of the module hold the same fields.  *)

(* bookkeeping of one process: where it is, the speed the car was created  *)
(* with, how often Car.move ran, the clock at which the car was appended   *)
(* to finished_cars, and where the car was stopped by a stop branch (-1    *)
(* when it was not, or when its speed was changed since)                   *)
ProcInit(speed) ==
    [pc |-> "start", speed0 |-> speed, moves |-> 0, finished_at |-> -1, stop_pos |-> -1]

(* a loop that gives up one tick before the limit *)
KeepDriving_Early(position, length, now, limit) ==
    position < length /\ now + 1 < limit

(* the loop condition of car_process *)
KeepDriving(position, length, now, limit) == position < length /\ now < limit

(* recording only the cars that arrive in the last tick before the limit *)
FinishedInTime_LastTick(position, length, now, limit) ==
    position >= length /\ now + 1 >= limit

(* the condition under which car_process records the car *)
FinishedInTime(position, length, now, limit) == position >= length /\ now <= limit

(* what check_objects does when the process of car c is resumed: nothing   *)
(* when the loop is left                                                   *)
applied(s, c, d) ==
    IF KeepDriving(s.cars[c].position, s.road.length, s.env.now, s.time_limit)
    THEN check_objects(s.road.objects, s.cars[c].speed, d)
    ELSE <<>>

(* car_process from its start or from its yield up to the next yield or    *)
(* its end: the process of car c is resumed at time s.env.now              *)
car_process(s, c, d) ==
    LET car == s.cars[c]
        now == s.env.now
    IN  IF KeepDriving(car.position, s.road.length, now, s.time_limit)
        THEN LET moved == Car_move(car)
                 log == applied(s, c, d)
             IN  [s EXCEPT
                    !.cars[c] = [moved EXCEPT !.speed = SpeedAfter(log, moved.speed)],
                    !.proc[c] = [@ EXCEPT !.pc = "yield", !.moves = @ + 1,
                                          !.stop_pos =
                                              StoppedAfter(log, @, moved.position)],
                    !.env = timeout(s.env, TimeoutDelay, c)]
        ELSE IF FinishedInTime(car.position, s.road.length, now, s.time_limit)
        THEN [s EXCEPT
                !.finished_cars = Append(@, car.id),
                !.proc[c] = [@ EXCEPT !.pc = "finished", !.finished_at = now],
                !.env = schedule(s.env, NORMAL, 0, "Process", c)]
        ELSE [s EXCEPT
                !.proc[c] = [@ EXCEPT !.pc = IF car.position < s.road.length
                                              THEN "not_in_time" ELSE "ended"],
                !.env = schedule(s.env, NORMAL, 0, "Process", c)]

(* env.run without the check of its limit *)
env_run_Unchecked(s) ==
    [s EXCEPT !.status = "running",
              !.env = schedule(s.env, UntilPriority, s.time_limit - s.env.now,
                               "Until", 0)]

(* env.run with the stop event one time unit late *)
env_run_Late(s) ==
    IF s.time_limit <= s.env.now
    THEN [s EXCEPT !.status = "error"]
    ELSE [s EXCEPT !.status = "running",
                   !.env = schedule(s.env, URGENT, s.time_limit - s.env.now + 1,
                                    "Until", 0)]

(* env.run(until=time_limit): a limit that is not in the future is         *)
(* rejected with ValueError, otherwise the stop event is scheduled urgent  *)
env_run(s) ==
    IF s.time_limit <= s.env.now
    THEN [s EXCEPT !.status = "error"]
    ELSE [s EXCEPT !.status = "running",
                   !.env = schedule(s.env, UntilPriority, s.time_limit - s.env.now,
                                    "Until", 0)]

(* a stop event whose callback does not stop the run *)
StopSimulation_Ignored(s) == s

(* StopSimulation.callback: env.run returns and run_simulation returns     *)
(* len(finished_cars)                                                      *)
StopSimulation(s) ==
    [s EXCEPT !.status = "returned", !.result = Len(s.finished_cars)]

(* the state in which the callbacks of the popped event run *)
popped(s) ==
    LET ev == NextEvent(s.env.queue)
    IN  [s EXCEPT !.env.queue = @ \ {ev}, !.env.now = ev.time]

(* callbacks in which the event of an ended process resumes it once more *)
callbacks_ResumeEnded(p, ev, d) ==
    CASE ev.kind \in {"Initialize", "Timeout", "Process"} -> car_process(p, ev.car, d)
      [] ev.kind = "Until" -> StopSimulation(p)

(* the callbacks of the popped event ev, run in the state p after the pop: *)
(* a process is resumed, the event of an ended process has no callback,    *)
(* the stop event stops the run                                            *)
callbacks(p, ev, d) ==
    CASE ev.kind \in {"Initialize", "Timeout"} -> car_process(p, ev.car, d)
      [] ev.kind = "Process" -> p
      [] ev.kind = "Until" -> StopSimulation(p)

(* env.step(): pop the next event, set the clock, run its callbacks *)
step(s, d) ==
    CHOOSE r \in {callbacks(p, NextEvent(s.env.queue), d) : p \in {popped(s)}} : TRUE

(* the applications of road objects env.step() makes *)
step_log(s, d) ==
    LET ev == NextEvent(s.env.queue)
    IN  IF ev.kind \in {"Initialize", "Timeout"}
        THEN applied(popped(s), ev.car, d)
        ELSE <<>>

(* the events heappop may return: those no other queued event is before *)
Minimal(queue) == {e \in queue : \A f \in queue : ~Before(f, e)}

(* env.step() when the pop returns ev *)
step_of(s, ev, d) ==
    CHOOSE r \in {callbacks(p, ev, d) :
                     p \in {[s EXCEPT !.env.queue = @ \ {ev}, !.env.now = ev.time]}} : TRUE

CanStep(s) == s.status = "running" /\ s.env.queue # {}

(* run_simulation up to and including the registration of the processes *)
Registered(speeds, limit, length, objects) ==
    LET n == Len(speeds)
    IN  [env |-> register([now |-> 0, queue |-> {}, eid |-> 0], 1, n),
         road |-> [length |-> length, objects |-> objects],
         cars |-> [i \in 1..n |-> [id |-> i, speed |-> speeds[i], position |-> 0]],
         finished_cars |-> <<>>,
         time_limit |-> limit,
         status |-> "registered",
         result |-> -1,
         proc |-> [i \in 1..n |-> ProcInit(speeds[i])]]

State ==
    [env |-> env, road |-> road, cars |-> cars, finished_cars |-> finished_cars,
     time_limit |-> time_limit, status |-> status, result |-> result, proc |-> proc]

SetState(s) ==
    /\ env' = s.env
    /\ road' = s.road
    /\ cars' = s.cars
    /\ finished_cars' = s.finished_cars
    /\ time_limit' = s.time_limit
    /\ status' = s.status
    /\ result' = s.result
    /\ proc' = s.proc

IsState(s) ==
    /\ env = s.env
    /\ road = s.road
    /\ cars = s.cars
    /\ finished_cars = s.finished_cars
    /\ time_limit = s.time_limit
    /\ status = s.status
    /\ result = s.result
    /\ proc = s.proc

NoRun == [status |-> "none"]

----------------------------------------------------------------------------
(* run_simulation(num_cars, time_limit)                                    *)

TimeLimits == -1..MaxTimeLimit

SpeedLists == UNION {[1..n -> SampledSpeeds] : n \in 1..MaxCars}

DefaultObjects(fumes) ==
    <<SpeedCamera(CameraSpeedLimit), SpeedBump(BumpSlowDown),
      CongestionCharging(fumes), TrafficCollisionDetection>>

Init ==
    \E speeds \in SpeedLists, limit \in TimeLimits, fumes \in SampledFumes :
        /\ IsState(Registered(speeds, limit, RoadLength, DefaultObjects(fumes)))
        /\ run2 = NoRun

EnvRun ==
    /\ status = "registered"
    /\ \E s2 \in {env_run(State)} : SetState(s2)
    /\ UNCHANGED run2

(* one env.step() of the run, whatever the resumed process draws *)
Stepped == \E s1 \in {State} : \E d \in Draws : \E s2 \in {step(s1, d)} : SetState(s2)

(* the next event starts a process *)
StepInitialize ==
    /\ CanStep(State)
    /\ NextEvent(env.queue).kind = "Initialize"
    /\ Stepped
    /\ UNCHANGED run2

(* the next event is a timeout a process sleeps on *)
StepTimeout ==
    /\ CanStep(State)
    /\ NextEvent(env.queue).kind = "Timeout"
    /\ Stepped
    /\ UNCHANGED run2

(* the next event is the event of a process that has ended *)
StepProcess ==
    /\ CanStep(State)
    /\ NextEvent(env.queue).kind = "Process"
    /\ Stepped
    /\ UNCHANGED run2

(* the next event is the stop event of env.run *)
StepUntil ==
    /\ CanStep(State)
    /\ NextEvent(env.queue).kind = "Until"
    /\ Stepped
    /\ UNCHANGED run2

Next ==
    \/ EnvRun
    \/ StepInitialize
    \/ StepTimeout
    \/ StepProcess
    \/ StepUntil

Spec == Init /\ [][Next]_vars

----------------------------------------------------------------------------
(* car_process on other roads: one car of constant initial speed on a      *)
(* road without objects or with a single speed bump                        *)

RoadLengths == {31, 50, RoadLength}
RoadSpeeds == {7, 10, 30}

(* roads on which every pass is determined, run up to MaxRoadTimeLimit *)
SteadyObjectLists == {<<>>, <<SpeedBump(BumpSlowDown)>>}

(* roads whose only objects are the ones that stop a car *)
StopObjectLists ==
    {<<TrafficCollisionDetection>>,
     <<CongestionCharging(6), TrafficCollisionDetection>>}

InitRoad ==
    \E speed \in RoadSpeeds, length \in RoadLengths :
        /\ \/ \E limit \in 1..MaxRoadTimeLimit, objects \in SteadyObjectLists :
                 IsState(Registered(<<speed>>, limit, length, objects))
           \/ \E limit \in 1..MaxTimeLimit, objects \in StopObjectLists :
                 IsState(Registered(<<speed>>, limit, length, objects))
        /\ run2 = NoRun

SpecRoad == InitRoad /\ [][Next]_vars

(* several cars on a road whose objects draw at most the collision: runs   *)
(* in which some cars have finished while others still drive               *)
OrderObjectLists ==
    {<<>>, <<SpeedBump(BumpSlowDown)>>, <<TrafficCollisionDetection>>}

OrderSpeedLists == UNION {[1..n -> RoadSpeeds] : n \in 1..MaxOrderCars}

InitOrder ==
    \E speeds \in OrderSpeedLists, length \in RoadLengths,
       limit \in 1..MaxTimeLimit, objects \in OrderObjectLists :
        /\ IsState(Registered(speeds, limit, length, objects))
        /\ run2 = NoRun

SpecOrder == InitOrder /\ [][Next]_vars

(* every run above *)
SpecAll == (Init \/ InitRoad) /\ [][Next]_vars

(* the event loop of env.run keeps stepping until it is stopped; runs of    *)
(* more than one car are taken up to MaxLiveTimeLimit                      *)
LiveInit == Init /\ (Len(cars) = 1 \/ time_limit <= MaxLiveTimeLimit)

LiveSpec == LiveInit /\ [][Next]_vars /\ WF_vars(Next)

----------------------------------------------------------------------------
(* Two runs of run_simulation with the same cars, the same fumes level and *)
(* the same outcome of every draw, the second (run2) with a larger         *)
(* time_limit.  The runs step together, each popping its own next event,   *)
(* and a step of both takes the same draws; once the first run has         *)
(* stopped the second goes on alone.                                       *)

InitPair ==
    \E speeds \in SpeedLists, fumes \in SampledFumes,
       limit \in 1..(MaxTimeLimit - 1), gap \in 1..MaxGap :
        /\ limit + gap <= MaxTimeLimit
        /\ IsState(Registered(speeds, limit, RoadLength, DefaultObjects(fumes)))
        /\ run2 = Registered(speeds, limit + gap, RoadLength, DefaultObjects(fumes))

PairEnvRun ==
    /\ status = "registered"
    /\ run2.status = "registered"
    /\ \E s2 \in {env_run(State)} : SetState(s2)
    /\ run2' = env_run(run2)

PairStep ==
    /\ CanStep(State)
    /\ CanStep(run2)
    /\ \E d \in Draws :
          /\ \E s2 \in {step(State, d)} : SetState(s2)
          /\ run2' = step(run2, d)

Run2Step ==
    /\ status = "returned"
    /\ CanStep(run2)
    /\ \E d \in Draws : run2' = step(run2, d)
    /\ UNCHANGED <<env, road, cars, finished_cars, time_limit, status, result, proc>>

NextPair ==
    \/ PairEnvRun
    \/ PairStep
    \/ Run2Step

SpecPair == InitPair /\ [][NextPair]_vars

----------------------------------------------------------------------------
(* Two runs of run_simulation with the same num_cars and time_limit, the   *)
(* same fumes level and initial speeds, and the same outcome of every      *)
(* draw.  The second run (run2) pops any event the heap may return.        *)

InitTwin ==
    \E speeds \in SpeedLists, limit \in TimeLimits, fumes \in SampledFumes :
        /\ IsState(Registered(speeds, limit, RoadLength, DefaultObjects(fumes)))
        /\ run2 = Registered(speeds, limit, RoadLength, DefaultObjects(fumes))

TwinStep ==
    /\ CanStep(State)
    /\ CanStep(run2)
    /\ \E d \in Draws :
          /\ \E s2 \in {step(State, d)} : SetState(s2)
          /\ \E ev \in Minimal(run2.env.queue) : run2' = step_of(run2, ev, d)

NextTwin ==
    \/ PairEnvRun
    \/ TwinStep

SpecTwin == InitTwin /\ [][NextTwin]_vars

----------------------------------------------------------------------------
(* Helpers of the properties                                               *)

Range(seq) == {seq[i] : i \in 1..Len(seq)}

Cars == DOMAIN cars

Recorded(c) == cars[c].id \in Range(finished_cars)

Arrived(c) == cars[c].position >= road.length

Ceil(a, b) == (a + b - 1) \div b

(* every application of a road object that env.step() makes from the       *)
(* current state, whatever it draws, satisfies P                           *)
EveryApplication(P(_, _)) ==
    CanStep(State) =>
        \A d \in Draws :
            \A log \in {step_log(State, d)} :
                \A i \in 1..Len(log) : P(log[i], d)

NoObjects == road.objects = <<>>

OneCar == Len(cars) = 1

----------------------------------------------------------------------------
(* C1: when the run has stopped, every vehicle whose position is >=        *)
(* road.length has its id in finished_cars, also the vehicle that arrives  *)
(* in the last advance time_limit allows.                                  *)
C1_ArrivedAreRecorded ==
    status = "returned" => \A c \in Cars : Arrived(c) => Recorded(c)

(* C2: every id in finished_cars belongs to a vehicle whose position is    *)
(* >= road.length and that was appended at a clock <= time_limit; a        *)
(* vehicle short of road.length when the run stops is not counted; road    *)
(* length 50, time_limit 1, constant speed 10 gives the count 0.           *)
C2_RecordedHaveArrived ==
    /\ \A i \in 1..Len(finished_cars) :
          \E c \in Cars :
              /\ cars[c].id = finished_cars[i]
              /\ Arrived(c)
              /\ proc[c].finished_at >= 0
              /\ proc[c].finished_at <= time_limit
    /\ status = "returned" => \A c \in Cars : ~Arrived(c) => ~Recorded(c)
    /\ ( /\ status = "returned"
         /\ OneCar /\ NoObjects
         /\ road.length = 50 /\ time_limit = 1 /\ proc[1].speed0 = 10 )
       => result = 0 /\ cars[1].position = 10

C2_Witness ==
    /\ status = "returned"
    /\ Len(cars) = 2
    /\ finished_cars = <<1>>
    /\ result = 1
    /\ ~Arrived(2)

(* C3: a vehicle of constant speed s on a road without objects is recorded *)
(* at the clock ceil(road_length / s) whenever that is <= time_limit.      *)
C3_RecordedAtCeil ==
    ( /\ status = "returned"
      /\ OneCar /\ NoObjects
      /\ Ceil(road.length, proc[1].speed0) <= time_limit )
    => /\ Recorded(1)
       /\ proc[1].finished_at = Ceil(road.length, proc[1].speed0)

(* C4 as stated: the clock starts at 0, advances by 1 per step, never      *)
(* exceeds time_limit, and Car.move runs at most time_limit times per car. *)
C4_ClockByOne ==
    /\ env.now = 0
    /\ [](time_limit >= 1 =>
            /\ env.now <= time_limit
            /\ \A c \in Cars : proc[c].moves <= time_limit)
    /\ [][env.now' \in {env.now, env.now + 1}]_vars

SomeProcessWaits == \E e \in env.queue : e.kind \in {"Initialize", "Timeout"}

(* C4 amended: the clock starts at 0, never goes back and never exceeds    *)
(* time_limit; it advances by at most 1 per step while a vehicle process   *)
(* waits to be resumed (once all have ended it goes straight to            *)
(* time_limit); Car.move runs at most time_limit times per car.            *)
C4_ClockBounded ==
    /\ env.now = 0
    /\ [](time_limit >= 1 =>
            /\ env.now <= time_limit
            /\ \A c \in Cars : proc[c].moves <= time_limit)
    /\ [][/\ env.now' >= env.now
          /\ SomeProcessWaits => env.now' \in {env.now, env.now + 1}
          /\ ~SomeProcessWaits /\ env.now' # env.now => env.now' = time_limit]_vars

C4_Witness ==
    /\ status = "returned"
    /\ env.now = time_limit
    /\ \E c \in Cars : proc[c].moves = time_limit
    /\ \E c \in Cars : proc[c].moves < time_limit /\ proc[c].pc = "finished"

(* C5: every run with time_limit >= 1 eventually stops and returns a       *)
(* finished count, also when vehicles are held at speed 0.                 *)
C5_RunReturns ==
    [](time_limit >= 1 => <>(status = "returned" /\ result = Len(finished_cars)))

C5_Witness ==
    /\ status = "returned"
    /\ Len(cars) = 2
    /\ result = 0
    /\ \A c \in Cars : cars[c].speed = 0 /\ ~Arrived(c) /\ proc[c].stop_pos >= 0

Slowdown(entry) == entry.kind \in {"SpeedBump", "SpeedCamera"}

AtLeastOne(entry, d) == Slowdown(entry) => entry.after >= 1

(* C6 as stated: right after every application of SpeedBump.affect and of  *)
(* SpeedCamera.affect the vehicle's speed is >= 1.                         *)
C6_SlowdownsLeaveOne == EveryApplication(AtLeastOne)

AtLeastOneIfSlowed(entry, d) ==
    /\ entry.kind = "SpeedBump" => entry.after >= 1
    /\ entry.kind = "SpeedCamera" =>
          \/ entry.after >= 1
          \/ ~d.choice /\ entry.before = 0 /\ entry.after = 0

(* C6 amended: right after every application of SpeedBump.affect the speed *)
(* is >= 1; right after SpeedCamera.affect it is >= 1 when the camera      *)
(* slowed the vehicle or the speed before it was >= 1 (a vehicle at speed  *)
(* 0 that the camera does not slow leaves it at speed 0).                  *)
C6_SlowdownsFloor == EveryApplication(AtLeastOneIfSlowed)

C6_Witness ==
    \E c \in Cars :
        /\ proc[c].moves >= 3
        /\ cars[c].speed = 1
        /\ road.objects = DefaultObjects(6)

NotNegative(entry, d) == entry.after >= 0

(* C7: in every reachable state every vehicle's speed is >= 0, and no      *)
(* application of any road object leaves the speed negative.               *)
C7_SpeedNotNegative ==
    /\ \A c \in Cars : cars[c].speed >= 0
    /\ EveryApplication(NotNegative)

C7_Witness ==
    \E c \in Cars :
        /\ cars[c].speed = 0
        /\ proc[c].moves >= 2
        /\ proc[c].pc = "yield"

Stopped(c) == proc[c].stop_pos >= 0 /\ cars[c].speed = 0

(* C8 as stated: a vehicle whose speed was set to 0 by a stop branch and   *)
(* not changed afterwards is not in finished_cars when the run ends.       *)
C8_StoppedNotRecorded ==
    status = "returned" => \A c \in Cars : Stopped(c) => ~Recorded(c)

(* C8 amended: a vehicle whose speed was set to 0 by a stop branch while   *)
(* its position was < road.length, and not changed afterwards, is not in   *)
(* finished_cars when the run ends.                                        *)
C8_StoppedShortNotRecorded ==
    status = "returned" =>
        \A c \in Cars : Stopped(c) /\ proc[c].stop_pos < road.length => ~Recorded(c)

C8_Witness ==
    /\ status = "returned"
    /\ \E c \in Cars :
          /\ Stopped(c)
          /\ proc[c].stop_pos < road.length
          /\ proc[c].moves >= proc[c].stop_pos \div proc[c].speed0 + 2
          /\ road.objects = <<TrafficCollisionDetection>>

BumpScenario ==
    /\ OneCar
    /\ road.length = 100
    /\ road.objects = <<SpeedBump(5)>>
    /\ proc[1].speed0 = 10

(* C9 as stated: road length 100, one vehicle of speed 10, SpeedBump(5)    *)
(* alone: the positions after successive ticks are 10, 15, 20, 24, 25, 26. *)
C9_StatedPositions ==
    BumpScenario =>
        /\ proc[1].moves = 1 => cars[1].position = 10
        /\ proc[1].moves = 2 => cars[1].position = 15
        /\ proc[1].moves = 3 => cars[1].position = 20
        /\ proc[1].moves = 4 => cars[1].position = 24
        /\ proc[1].moves = 5 => cars[1].position = 25
        /\ proc[1].moves = 6 => cars[1].position = 26

(* C9 amended: the positions after successive ticks are 10, 15, 16, 17,    *)
(* ... (13 + k after tick k >= 2: speed 5 after tick 1, floor 1 from tick  *)
(* 2 on) until the position is >= 100, which is after tick 87.             *)
C9_BumpPositions ==
    BumpScenario =>
        /\ proc[1].moves = 0 => cars[1].position = 0 /\ cars[1].speed = 10
        /\ proc[1].moves = 1 => cars[1].position = 10 /\ cars[1].speed = 5
        /\ proc[1].moves >= 2 =>
              cars[1].position = 13 + proc[1].moves /\ cars[1].speed = 1
        /\ proc[1].moves <= 87

C9_Witness ==
    /\ BumpScenario
    /\ proc[1].moves = 87
    /\ cars[1].position = 100
    /\ finished_cars = <<1>>

(* C10: of two runs that differ only in time_limit (T < T'), with the same *)
(* draws in the same order, every vehicle finished in the run with T is    *)
(* finished in the run with T', so the count with T' is >= the count with  *)
(* T.  While both runs go on they resume the same process, so they take    *)
(* the draws in the same order.                                            *)
C10_Monotone ==
    /\ CanStep(State) /\ CanStep(run2) =>
          LET e1 == NextEvent(env.queue)
              e2 == NextEvent(run2.env.queue)
          IN  e1.kind = "Until" \/ (e1.kind = e2.kind /\ e1.car = e2.car)
    /\ status = "returned" /\ run2.status = "returned" =>
          /\ Range(finished_cars) \subseteq Range(run2.finished_cars)
          /\ result <= run2.result

C10_Witness ==
    /\ status = "returned"
    /\ run2.status = "returned"
    /\ Len(cars) = 2
    /\ result = 1
    /\ run2.finished_cars = finished_cars
    /\ run2.time_limit = time_limit + 1

OneChoice(queue) == \A e, f \in queue : e # f => Before(e, f) \/ Before(f, e)

(* C11: two runs with the same num_cars and time_limit and the same        *)
(* outcome of every draw (fumes level, initial speeds, every effect draw)  *)
(* have the same finished_cars list, hence the same count and the same     *)
(* classification of every vehicle: the event loop never has two events    *)
(* to choose from, so both runs hand the draws to the same vehicles.       *)
C11_Deterministic ==
    /\ OneChoice(env.queue) /\ OneChoice(run2.env.queue)
    /\ run2.finished_cars = finished_cars
    /\ run2.result = result
    /\ run2.status = status
    /\ \A c \in Cars : run2.proc[c].pc = proc[c].pc /\ run2.cars[c] = cars[c]

C11_Witness ==
    /\ status = "returned"
    /\ run2.status = "returned"
    /\ Len(cars) = 2
    /\ run2.finished_cars = <<2>>
    /\ finished_cars = <<2>>
    /\ proc[1].speed0 = proc[2].speed0
    /\ run2.cars[1].speed = 0

(* C12: run_simulation called with time_limit <= 0 is rejected with an     *)
(* error before any vehicle is advanced and before any effect is applied,  *)
(* and returns no finished count.                                          *)
C12_NonPositiveRejected ==
    time_limit <= 0 =>
        /\ status \in {"registered", "error"}
        /\ result = -1
        /\ finished_cars = <<>>
        /\ env.now = 0
        /\ \A c \in Cars :
              /\ cars[c].position = 0
              /\ cars[c].speed = proc[c].speed0
              /\ proc[c].moves = 0
              /\ proc[c].pc = "start"
        /\ status = "error" => ~ENABLED Next

C12_Witness ==
    /\ status = "error"
    /\ time_limit = 0
    /\ Len(cars) = 2

(* C13: each vehicle's position starts at 0 and never decreases; a step    *)
(* changes it only for the vehicle whose Car.move it runs, by that         *)
(* vehicle's speed before the move, so the effects applied after the move  *)
(* (to this or any other vehicle) leave every position as it is.           *)
C13_PositionFrame ==
    /\ \A c \in Cars : cars[c].position = 0
    /\ [][\A c \in Cars :
            /\ cars'[c].position >= cars[c].position
            /\ IF proc'[c].moves = proc[c].moves + 1
               THEN cars'[c].position = cars[c].position + cars[c].speed
               ELSE /\ proc'[c].moves = proc[c].moves
                    /\ cars'[c].position = cars[c].position]_vars

C13_Witness ==
    /\ Len(cars) = 2
    /\ proc[1].moves = 3
    /\ cars[1].position = 75
    /\ cars[1].speed = 0
    /\ proc[2].moves = 3
    /\ cars[2].position = 11

Resumes(e) == e.kind \in {"Initialize", "Timeout"}

Running(c) == proc[c].pc \in {"start", "yield"}

(* C14: within every tick the still-running vehicles take their turns in   *)
(* ascending id: the process resumed next is the one of the smallest id    *)
(* among those still waiting for this tick, the processes already waiting  *)
(* for the next tick are those of smaller ids, and every running vehicle   *)
(* waits exactly once (its whole turn is one resumption); the same holds   *)
(* in every tick, also after some vehicles have finished.                  *)
C14_CreationOrder ==
    status = "running" =>
        /\ \A c \in Cars :
              Cardinality({e \in env.queue : Resumes(e) /\ e.car = c})
                  = IF Running(c) THEN 1 ELSE 0
        /\ env.queue # {} /\ Resumes(NextEvent(env.queue)) =>
              LET ev == NextEvent(env.queue)
              IN  \A f \in env.queue :
                      Resumes(f) /\ f # ev =>
                          \/ f.time = ev.time /\ f.car > ev.car
                          \/ f.time = ev.time + TimeoutDelay /\ f.car < ev.car

C14_Witness ==
    /\ Len(cars) = 3
    /\ status = "running"
    /\ proc[2].pc = "finished"
    /\ proc[1].moves = 4
    /\ proc[3].moves = 3
    /\ Running(1) /\ Running(3)
    /\ Resumes(NextEvent(env.queue))
    /\ NextEvent(env.queue).car = 3

(* the four effects of run_simulation's road, one after the other *)
Pipeline(speed, fumes, d) ==
    LET camera == IF d.choice THEN Max(speed - 5, 1) ELSE speed
        bump == Max(camera - 5, 1)
        zone == IF fumes > 5 /\ ~d.charged THEN 0 ELSE bump
    IN  IF d.collision THEN 0 ELSE zone

PipelineKinds ==
    <<"SpeedCamera", "SpeedBump", "CongestionCharging", "TrafficCollisionDetection">>

(* every pass of check_objects that env.step() makes from the current      *)
(* state starts from the speed the car has, applies the four objects in    *)
(* list order and hands each the speed the one before it left              *)
PassesInOrder ==
    CanStep(State) =>
        \A d \in Draws :
            \A log \in {step_log(State, d)} :
                log # <<>> =>
                    /\ [i \in 1..Len(log) |-> log[i].kind] = PipelineKinds
                    /\ log[1].before = cars[NextEvent(env.queue).car].speed
                    /\ \A i \in 2..Len(log) : log[i].before = log[i - 1].after
                    /\ log[Len(log)].after
                           = Pipeline(log[1].before, road.objects[3].param, d)

(* C15: in each tick of a running vehicle the advance comes before the     *)
(* effects, and the effects are applied in list order (SpeedCamera,        *)
(* SpeedBump, CongestionCharging, TrafficCollisionDetection), each on the  *)
(* speed the previous one left: the first advance is by the initial speed, *)
(* every later one by the speed the last effect left in the tick before,   *)
(* and the speed a tick leaves is the four effects composed in that order. *)
C15_AdvanceThenPipeline ==
    /\ [](/\ PassesInOrder
          /\ \A c \in Cars :
                /\ proc[c].moves = 0 => cars[c].speed = proc[c].speed0
                /\ proc[c].moves = 1 => cars[c].position = proc[c].speed0)
    /\ [][\A c \in Cars :
            IF proc'[c].moves = proc[c].moves + 1
            THEN /\ cars'[c].position = cars[c].position + cars[c].speed
                 /\ \E d \in Draws :
                       cars'[c].speed
                           = Pipeline(cars[c].speed, road.objects[3].param, d)
            ELSE cars'[c].speed = cars[c].speed]_vars

C15_Witness ==
    \E c \in Cars :
        /\ proc[c].speed0 = 30
        /\ proc[c].moves = 3
        /\ cars[c].position = 75
        /\ cars[c].speed = 10
        /\ road.objects[3].param = 6

(* C16: once a vehicle's id is in finished_cars it stays there and is      *)
(* there once (finished_cars only grows at its end, has no duplicates and  *)
(* at most num_cars entries), and from then on the vehicle's position and  *)
(* speed never change: no further advance, no further effect.              *)
C16_FinishedAbsorbing ==
    /\ [](/\ Len(finished_cars) <= Len(cars)
          /\ \A i, j \in 1..Len(finished_cars) :
                finished_cars[i] = finished_cars[j] => i = j)
    /\ [][/\ Len(finished_cars') >= Len(finished_cars)
          /\ SubSeq(finished_cars', 1, Len(finished_cars)) = finished_cars
          /\ \A c \in Cars :
                Recorded(c) =>
                    /\ cars'[c] = cars[c]
                    /\ proc'[c].moves = proc[c].moves
                    /\ proc'[c].pc = "finished"]_vars

C16_Witness ==
    /\ Len(cars) = 3
    /\ status = "returned"
    /\ finished_cars = <<2, 1>>
    /\ proc[2].finished_at + 2 <= proc[1].finished_at
    /\ proc[3].moves = time_limit
    /\ proc[3].moves > proc[1].moves

ZoneFumes == road.objects[3].param

ZoneFrame(entry, d) ==
    entry.kind = "CongestionCharging" =>
        IF ZoneFumes <= 5
        THEN entry.after = entry.before /\ ~entry.drew
        ELSE /\ entry.drew
             /\ entry.after = IF d.charged THEN entry.before ELSE 0

(* C17: CongestionCharging with fumes <= 0.5 (0.5 included) leaves the     *)
(* vehicle's speed and position unchanged and takes no draw; with fumes >  *)
(* 0.5 an application leaves the speed unchanged (charged) or sets it to   *)
(* exactly 0; the position a turn leaves is the one the advance left.      *)
C17_ZoneFrame ==
    /\ EveryApplication(ZoneFrame)
    /\ CanStep(State) =>
          \A d \in Draws :
              step_log(State, d) # <<>> =>
                  LET c == NextEvent(env.queue).car
                  IN  step(State, d).cars[c].position
                          = cars[c].position + cars[c].speed

C17_Witness ==
    /\ ZoneFumes = 5
    /\ Len(cars) = 2
    /\ proc[1].moves = 5
    /\ cars[1].position = 100
    /\ cars[2].speed = 0

OnlyReduces(entry, d) == Slowdown(entry) => entry.after <= entry.before

(* C18: an application of SpeedBump.affect or SpeedCamera.affect never     *)
(* leaves a vehicle's speed higher than it was just before it, for every   *)
(* speed reachable in a run, speed 0 left by a stop effect included: a     *)
(* stopped vehicle is not set moving again by a slowdown effect.           *)
C18_SlowdownsOnlyReduce == EveryApplication(OnlyReduces)

(* C19: whenever a vehicle process is started or resumed during            *)
(* env.run(until=time_limit), env.now < time_limit; so car_process leaves  *)
(* its loop only with position >= road.length, every process that gets     *)
(* past the loop appends its id, and the 'did not finish in time' branch   *)
(* is never executed.                                                      *)
C19_ResumedBeforeLimit ==
    /\ CanStep(State) /\ Resumes(NextEvent(env.queue)) =>
          NextEvent(env.queue).time < time_limit
    /\ \A c \in Cars :
          /\ proc[c].pc \in {"start", "yield", "finished"}
          /\ proc[c].pc = "finished" =>
                /\ Arrived(c)
                /\ Recorded(c)
                /\ proc[c].finished_at < time_limit
          /\ proc[c].pc = "yield" /\ status = "returned" /\ ~Arrived(c) =>
                proc[c].moves = time_limit

C19_Witness ==
    /\ status = "returned"
    /\ Len(cars) = 2
    /\ proc[1].pc = "finished"
    /\ proc[1].finished_at = time_limit - 1
    /\ proc[2].pc = "yield"
    /\ proc[2].moves = time_limit
    /\ ~Arrived(2)

====
